---- MODULE Spec2Model ----
(***************************************************************************)
(* Model of the `ShallowDebug` derive macro (src/lib.rs).                  *)
(*                                                                         *)
(* The macro is one pure function, derive_shallow_debug, from a parsed     *)
(* declaration (syn::DeriveInput) to a token stream.  The model keeps the  *)
(* token stream as a tree of tokens, and then runs the emitted `fmt` on a  *)
(* value of the type with a formatter whose underlying writer may fail.    *)
(*                                                                         *)
(* Text that goes through a format string (the type's and the variants'    *)
(* identifiers, the string literal handed to `write!`) is a sequence of    *)
(* one-character strings, so that brace escaping is computed, not assumed. *)
(***************************************************************************)
EXTENDS Integers, Sequences, FiniteSets, TLC

VARIABLES
    parsed,       \* did syn::parse_macro_input! accept the stream
    input,        \* the syn::DeriveInput
    pc,           \* "parsed" -> "emitted" -> "printed"
    fmt_body,     \* tokens of the body of the generated fmt
    bounds,       \* the items of the `bounds` iterator, each a token stream
    ty_vars,      \* the Vec `ty_vars`, each a token stream
    impl_debug,   \* tokens of the impl header
    output,       \* the token stream the macro returns
    self,         \* run time: index of the active variant (0: not an enum)
    f,            \* run time: the formatter
    result        \* run time: what the generated fmt returned

vars == <<parsed, input, pc, fmt_body, bounds, ty_vars, impl_debug, output,
          self, f, result>>

(***************************************************************************)
(* Bounds of the checked inputs.                                           *)
(***************************************************************************)
MaxVariants == 2
MaxFields == 1
MaxParams == 2
MaxPreds == 2

(***************************************************************************)
(* Tokens.  Word: a keyword or an identifier whose spelling the macro      *)
(* never looks into.  Ident: an identifier with its spelling.  Group: a    *)
(* delimited token tree.                                                   *)
(***************************************************************************)
Word(s) == [t |-> "Word", s |-> s, chars |-> <<>>, inner |-> <<>>]
Punct(s) == [t |-> "Punct", s |-> s, chars |-> <<>>, inner |-> <<>>]
Ident(chars) == [t |-> "Ident", s |-> "", chars |-> chars, inner |-> <<>>]
Lifetime(chars) == [t |-> "Lifetime", s |-> "", chars |-> chars, inner |-> <<>>]
Lit(chars) == [t |-> "Lit", s |-> "", chars |-> chars, inner |-> <<>>]
Group(delim, inner) == [t |-> "Group", s |-> delim, chars |-> <<>>, inner |-> inner]

Range(seq) == {seq[i] : i \in 1..Len(seq)}

RECURSIVE Concat(_)
\* the concatenation of a sequence of token streams
Concat(streams) ==
    IF streams = <<>> THEN <<>> ELSE Head(streams) \o Concat(Tail(streams))

RECURSIVE Separated(_, _)
\* quote's #(#items),* : the items with `sep` between them, none trailing
Separated(items, sep) ==
    IF items = <<>> THEN <<>>
    ELSE IF Len(items) = 1 THEN items[1]
    ELSE items[1] \o <<sep>> \o Separated(Tail(items), sep)

RECURSIVE Terminated(_, _)
\* quote's #(#items,)* : every item followed by `sep`
Terminated(items, sep) ==
    IF items = <<>> THEN <<>>
    ELSE Head(items) \o <<sep>> \o Terminated(Tail(items), sep)

(***************************************************************************)
(* Format strings, as format! and write! (format_args!) expand them:       *)
(* `{{` is `{`, `}}` is `}`, `{name}` is the Display of the captured       *)
(* `name`, and a lone brace or an unknown name is rejected.                *)
(***************************************************************************)
RECURSIVE ClosingBrace(_, _)
\* index of the first `}` of s at or after i, 0 if there is none
ClosingBrace(s, i) ==
    IF i > Len(s) THEN 0
    ELSE IF s[i] = "}" THEN i
    ELSE ClosingBrace(s, i + 1)

RECURSIVE FormatFrom(_, _, _, _)
FormatFrom(s, i, env, acc) ==
    IF i > Len(s) THEN [ok |-> TRUE, text |-> acc]
    ELSE IF s[i] = "{" THEN
        IF i < Len(s) /\ s[i + 1] = "{"
        THEN FormatFrom(s, i + 2, env, Append(acc, "{"))
        ELSE LET j == ClosingBrace(s, i + 1)
                 name == SubSeq(s, i + 1, j - 1)
             IN  IF j = 0 \/ name \notin DOMAIN env
                 THEN [ok |-> FALSE, text |-> acc]
                 ELSE FormatFrom(s, j + 1, env, acc \o env[name])
    ELSE IF s[i] = "}" THEN
        IF i < Len(s) /\ s[i + 1] = "}"
        THEN FormatFrom(s, i + 2, env, Append(acc, "}"))
        ELSE [ok |-> FALSE, text |-> acc]
    ELSE FormatFrom(s, i + 1, env, Append(acc, s[i]))

Format(s, env) == FormatFrom(s, 1, env, <<>>)

\* the spellings of the two captured names of the macro's format strings
NameIdent == <<"i", "d", "e", "n", "t">>
NameVariantIdent ==
    <<"v", "a", "r", "i", "a", "n", "t", "_", "i", "d", "e", "n", "t">>
Arg(name) == <<"{">> \o name \o <<"}">>
NoArgs == [n \in {} |-> <<>>]

(***************************************************************************)
(* The declarations the macro is run on.                                   *)
(*   input    = [ident, data, generics]                                    *)
(*   data     = [kind: Struct | Enum | Union, fields, variants]            *)
(*   fields   = [kind: Named | Unnamed | Unit, list of [name, ty]]         *)
(*   variant  = [ident, fields]                                            *)
(*   generics = [params, where_clause]                                     *)
(*   param    = [kind: Lifetime | Type | Const, ident, bounds, default, ty]*)
(* An Option is a sequence of length 0 or 1.                               *)
(***************************************************************************)
SeqsUpTo(S, n) == UNION {[1..k -> S] : k \in 0..n}

Distinct(seq, Key(_)) ==
    \A i, j \in 1..Len(seq) : i # j => Key(seq[i]) # Key(seq[j])

TypeIdents == {<<"N">>, <<"M", "y">>}
VariantIdents == {<<"A">>, <<"B">>, <<"V", "3">>}

NoDebugTy == <<Word("NoDebug")>>
VecTy == <<Word("Vec"), Punct("<"), Word("u8"), Punct(">")>>
FieldPools ==
    { << [name |-> <<"x">>, ty |-> <<Word("u8")>>],
         [name |-> <<"y">>, ty |-> NoDebugTy],
         [name |-> <<"z">>, ty |-> VecTy] >>,
      << [name |-> <<"p">>, ty |-> NoDebugTy],
         [name |-> <<"q">>, ty |-> <<Word("String")>>],
         [name |-> <<"r">>, ty |-> <<Word("u8")>>] >> }

Positional(field) == [name |-> <<>>, ty |-> field.ty]
Map(seq, Op(_)) == [i \in 1..Len(seq) |-> Op(seq[i])]

NamedFields ==
    {[kind |-> "Named", list |-> SubSeq(pool, 1, n)] :
        pool \in FieldPools, n \in 0..MaxFields}
UnnamedFields ==
    {[kind |-> "Unnamed", list |-> Map(SubSeq(pool, 1, n), Positional)] :
        pool \in FieldPools, n \in 0..MaxFields}
UnitFields == [kind |-> "Unit", list |-> <<>>]
FieldsSet == NamedFields \cup UnnamedFields \cup {UnitFields}

VariantSet == [ident : VariantIdents, fields : FieldsSet]
VariantIdentOf(variant) == variant.ident
VariantSeqs ==
    {vs \in SeqsUpTo(VariantSet, MaxVariants) : Distinct(vs, VariantIdentOf)}

DataSet ==
    {[kind |-> "Struct", fields |-> fs, variants |-> <<>>] : fs \in FieldsSet}
    \cup {[kind |-> "Union", fields |-> fs, variants |-> <<>>] :
            fs \in NamedFields}
    \cup {[kind |-> "Enum", fields |-> UnitFields, variants |-> vs] :
            vs \in VariantSeqs}

CloneBound == <<Word("Clone")>>
DebugBound == <<Word("std"), Punct("::"), Word("fmt"), Punct("::"), Word("Debug")>>
I32Ty == <<Word("i32")>>

ParamSet ==
    {[kind |-> "Lifetime", ident |-> <<"a">>, bounds |-> bs,
      default |-> <<>>, ty |-> <<>>] :
        bs \in {<<>>, << <<Lifetime(<<"static">>)>> >>}}
    \cup {[kind |-> "Type", ident |-> <<"A">>, bounds |-> bs,
           default |-> d, ty |-> <<>>] :
        bs \in {<<>>, <<CloneBound>>, <<CloneBound, DebugBound>>},
        d \in {<<>>, <<I32Ty>>}}
    \cup {[kind |-> "Type", ident |-> <<"B">>, bounds |-> bs,
           default |-> <<>>, ty |-> <<>>] :
        bs \in {<<>>, <<DebugBound>>}}
    \cup {[kind |-> "Const", ident |-> <<"K">>, bounds |-> <<>>,
           default |-> d, ty |-> <<Word("usize")>>] :
        d \in {<<>>, << <<Lit(<<"0">>)>> >>}}
ParamIdentOf(param) == <<param.kind = "Lifetime", param.ident>>
ParamSeqs == {ps \in SeqsUpTo(ParamSet, MaxParams) : Distinct(ps, ParamIdentOf)}

\* `A: Clone` (the same constraint an inline bound of A yields) and one that
\* names no parameter
PredicateSet ==
    { <<Ident(<<"A">>), Punct(":")>> \o CloneBound,
      <<Word("u8"), Punct(":"), Word("Copy")>> }
NoWhere == [present |-> FALSE, predicates |-> <<>>]
WhereSet ==
    {NoWhere}
    \cup {[present |-> TRUE, predicates |-> ps] :
            ps \in SeqsUpTo(PredicateSet, MaxPreds)}

\* a predicate on A needs a type parameter A
Declares(params, pred) ==
    pred[1] = Ident(<<"A">>) =>
        \E p \in Range(params) : p.kind = "Type" /\ p.ident = <<"A">>
GenericsSet ==
    {g \in [params : ParamSeqs, where_clause : WhereSet] :
        \A pred \in Range(g.where_clause.predicates) : Declares(g.params, pred)}

\* the declarations of Spec: every shape, few generic signatures
TypeAClone ==
    [kind |-> "Type", ident |-> <<"A">>, bounds |-> <<CloneBound>>,
     default |-> <<>>, ty |-> <<>>]
GenericsFew ==
    { [params |-> <<>>, where_clause |-> NoWhere],
      [params |-> <<TypeAClone>>,
       where_clause |-> [present |-> TRUE,
                         predicates |->
                            << <<Word("u8"), Punct(":"), Word("Copy")>> >>]] }
ShapeInputs == [ident : TypeIdents, data : DataSet, generics : GenericsFew]

\* the declarations of SpecGenerics: every generic signature, few shapes
DataFew ==
    { [kind |-> "Struct", fields |-> UnitFields, variants |-> <<>>],
      [kind |-> "Union",
       fields |-> [kind |-> "Named", list |-> <<>>], variants |-> <<>>],
      [kind |-> "Enum", fields |-> UnitFields,
       variants |-> << [ident |-> <<"A">>, fields |-> UnitFields],
                       [ident |-> <<"B">>,
                        fields |-> [kind |-> "Unnamed", list |-> <<>>]] >>] }
GenericsInputs == [ident : {<<"N">>}, data : DataFew, generics : GenericsSet]

\* what `input` holds when the stream was not a declaration
NoInput ==
    [ident |-> <<>>,
     data |-> [kind |-> "Struct", fields |-> UnitFields, variants |-> <<>>],
     generics |-> [params |-> <<>>, where_clause |-> NoWhere]]

(***************************************************************************)
(* derive_shallow_debug: fmt_body.                                         *)
(***************************************************************************)
\* the env of a format! that captures `ident` and `variant_ident`
Captured(ident, variant_ident) ==
    (NameIdent :> ident) @@ (NameVariantIdent :> variant_ident)

\* quote!(write!(f, #fmt))
WriteCall(fmt) ==
    <<Word("write"), Punct("!"), Group("(", <<Word("f"), Punct(","), Lit(fmt)>>)>>

\* VariantArm with `{{..}}` where the source has `{{{{..}}}}`
VariantArm_TwoBraces(ident, variant) ==
    LET variant_ident == variant.ident
        env == Captured(ident, variant_ident)
        path == <<Ident(ident), Punct("::"), Ident(variant_ident)>>
        head == Arg(NameIdent) \o <<":", ":">> \o Arg(NameVariantIdent)
    IN  CASE variant.fields.kind = "Named" ->
               LET fmt == Format(head \o <<"{", "{", ".", ".", "}", "}">>, env).text
               IN  path \o <<Group("{", <<Punct("..")>>), Punct("=>")>>
                        \o WriteCall(fmt)
          [] variant.fields.kind = "Unnamed" ->
               LET fmt == Format(head \o <<"(", ".", ".", ")">>, env).text
               IN  path \o <<Group("(", <<Punct("..")>>), Punct("=>")>>
                        \o WriteCall(fmt)
          [] variant.fields.kind = "Unit" ->
               LET fmt == Format(head, env).text
               IN  path \o <<Punct("=>")>> \o WriteCall(fmt)

\* VariantArm whose pattern names the fields of a named-field variant
VariantArm_BindsFields(ident, variant) ==
    LET variant_ident == variant.ident
        env == Captured(ident, variant_ident)
        path == <<Ident(ident), Punct("::"), Ident(variant_ident)>>
        head == Arg(NameIdent) \o <<":", ":">> \o Arg(NameVariantIdent)
        names == [i \in 1..Len(variant.fields.list) |->
                    <<Ident(variant.fields.list[i].name), Punct(":"), Word("_")>>]
    IN  CASE variant.fields.kind = "Named" ->
               LET fmt == Format(head \o <<"{", "{", "{", "{", ".", ".",
                                           "}", "}", "}", "}">>, env).text
               IN  path \o <<Group("{", Terminated(names, Punct(","))
                                        \o <<Punct("..")>>), Punct("=>")>>
                        \o WriteCall(fmt)
          [] variant.fields.kind = "Unnamed" ->
               LET fmt == Format(head \o <<"(", ".", ".", ")">>, env).text
               IN  path \o <<Group("(", <<Punct("..")>>), Punct("=>")>>
                        \o WriteCall(fmt)
          [] variant.fields.kind = "Unit" ->
               LET fmt == Format(head, env).text
               IN  path \o <<Punct("=>")>> \o WriteCall(fmt)

\* VariantArm whose unit arm returns Ok(()) without writing
VariantArm_UnitNoWrite(ident, variant) ==
    LET variant_ident == variant.ident
        env == Captured(ident, variant_ident)
        path == <<Ident(ident), Punct("::"), Ident(variant_ident)>>
        head == Arg(NameIdent) \o <<":", ":">> \o Arg(NameVariantIdent)
    IN  CASE variant.fields.kind = "Named" ->
               LET fmt == Format(head \o <<"{", "{", "{", "{", ".", ".",
                                           "}", "}", "}", "}">>, env).text
               IN  path \o <<Group("{", <<Punct("..")>>), Punct("=>")>>
                        \o WriteCall(fmt)
          [] variant.fields.kind = "Unnamed" ->
               LET fmt == Format(head \o <<"(", ".", ".", ")">>, env).text
               IN  path \o <<Group("(", <<Punct("..")>>), Punct("=>")>>
                        \o WriteCall(fmt)
          [] variant.fields.kind = "Unit" ->
               path \o <<Punct("=>"), Word("Ok"), Group("(", <<Group("(", <<>>)>>)>>

\* the closure of variants.iter().map(..): one match arm
VariantArm(ident, variant) ==
    LET variant_ident == variant.ident
        env == Captured(ident, variant_ident)
        path == <<Ident(ident), Punct("::"), Ident(variant_ident)>>
        head == Arg(NameIdent) \o <<":", ":">> \o Arg(NameVariantIdent)
    IN  CASE variant.fields.kind = "Named" ->
               LET fmt == Format(head \o <<"{", "{", "{", "{", ".", ".",
                                           "}", "}", "}", "}">>, env).text
               IN  path \o <<Group("{", <<Punct("..")>>), Punct("=>")>>
                        \o WriteCall(fmt)
          [] variant.fields.kind = "Unnamed" ->
               LET fmt == Format(head \o <<"(", ".", ".", ")">>, env).text
               IN  path \o <<Group("(", <<Punct("..")>>), Punct("=>")>>
                        \o WriteCall(fmt)
          [] variant.fields.kind = "Unit" ->
               LET fmt == Format(head, env).text
               IN  path \o <<Punct("=>")>> \o WriteCall(fmt)

\* EnumBody with a fallback arm after the arms of the variants
EnumBody_Wildcard(ident, data_enum) ==
    LET variants == [i \in 1..Len(data_enum.variants) |->
                        VariantArm(ident, data_enum.variants[i])]
        fallback == <<Word("_"), Punct("=>")>> \o WriteCall(ident)
    IN  <<Word("match"), Word("self"),
          Group("{", Terminated(Append(variants, fallback), Punct(",")))>>

\* Data::Enum: match self { #(#variants,)* }
EnumBody(ident, data_enum) ==
    LET variants == [i \in 1..Len(data_enum.variants) |->
                        VariantArm(ident, data_enum.variants[i])]
    IN  <<Word("match"), Word("self"),
          Group("{", Terminated(variants, Punct(",")))>>

\* StructBody whose positional-field case has the named-field text
StructBody_UnnamedAsNamed(ident, data_struct) ==
    LET env == (NameIdent :> ident)
    IN  CASE data_struct.fields.kind \in {"Named", "Unnamed"} ->
               WriteCall(Format(Arg(NameIdent) \o <<"{", "{", "{", "{", ".", ".",
                                                    "}", "}", "}", "}">>, env).text)
          [] data_struct.fields.kind = "Unit" ->
               WriteCall(Format(Arg(NameIdent), env).text)

\* Data::Struct
StructBody(ident, data_struct) ==
    LET env == (NameIdent :> ident)
    IN  CASE data_struct.fields.kind = "Named" ->
               WriteCall(Format(Arg(NameIdent) \o <<"{", "{", "{", "{", ".", ".",
                                                    "}", "}", "}", "}">>, env).text)
          [] data_struct.fields.kind = "Unnamed" ->
               WriteCall(Format(Arg(NameIdent) \o <<"(", ".", ".", ")">>, env).text)
          [] data_struct.fields.kind = "Unit" ->
               WriteCall(Format(Arg(NameIdent), env).text)

\* Data::Union
UnionBody(ident, data_union) ==
    WriteCall(Format(Arg(NameIdent), (NameIdent :> ident)).text)

FmtBody(in) ==
    CASE in.data.kind = "Enum" -> EnumBody(in.ident, in.data)
      [] in.data.kind = "Struct" -> StructBody(in.ident, in.data)
      [] in.data.kind = "Union" -> UnionBody(in.ident, in.data)

(***************************************************************************)
(* derive_shallow_debug: bounds, ty_vars, impl_debug and the result.       *)
(***************************************************************************)
\* quote's std::fmt::Debug
DebugPath == <<Word("std"), Punct("::"), Word("fmt"), Punct("::"), Word("Debug")>>

\* a Punctuated<_, Token![+]> as tokens
PlusSeparated(bs) == Separated(bs, Punct("+"))

ParamToken(param) ==
    IF param.kind = "Lifetime" THEN Lifetime(param.ident) ELSE Ident(param.ident)

\* ParamBound that asks Debug of every type parameter, as derive(Debug) does
ParamBound_AddsDebug(param) ==
    CASE param.kind = "Lifetime" /\ param.bounds = <<>> -> <<>>
      [] param.kind = "Lifetime" /\ param.bounds # <<>> ->
            << <<Lifetime(param.ident), Punct(":")>> \o PlusSeparated(param.bounds) >>
      [] param.kind = "Type" ->
            << <<Ident(param.ident), Punct(":")>>
               \o PlusSeparated(Append(param.bounds, DebugPath)) >>
      [] param.kind = "Const" -> <<>>

\* ParamBound that drops the bounds of lifetime parameters
ParamBound_NoLifetimes(param) ==
    CASE param.kind = "Lifetime" -> <<>>
      [] param.kind = "Type" /\ param.bounds = <<>> -> <<>>
      [] param.kind = "Type" /\ param.bounds # <<>> ->
            << <<Ident(param.ident), Punct(":")>> \o PlusSeparated(param.bounds) >>
      [] param.kind = "Const" -> <<>>

\* the closure of filter_map: None is <<>>, Some(x) is <<x>>
ParamBound(param) ==
    CASE param.kind = "Lifetime" /\ param.bounds = <<>> -> <<>>
      [] param.kind = "Lifetime" /\ param.bounds # <<>> ->
            << <<Lifetime(param.ident), Punct(":")>> \o PlusSeparated(param.bounds) >>
      [] param.kind = "Type" /\ param.bounds = <<>> -> <<>>
      [] param.kind = "Type" /\ param.bounds # <<>> ->
            << <<Ident(param.ident), Punct(":")>> \o PlusSeparated(param.bounds) >>
      [] param.kind = "Const" -> <<>>

\* where_clause.iter().flat_map(|clause| clause.predicates.iter()...)
WherePredicates(where_clause) ==
    IF where_clause.present THEN where_clause.predicates ELSE <<>>

Bounds(generics) ==
    Concat([i \in 1..Len(generics.params) |-> ParamBound(generics.params[i])])
    \o WherePredicates(generics.where_clause)

\* ConstParam::to_tokens
ConstParamTokens(cons) ==
    <<Word("const"), Ident(cons.ident), Punct(":")>> \o cons.ty
    \o (IF cons.default # <<>> THEN <<Punct("=")>> \o cons.default[1] ELSE <<>>)

\* TyVar that drops the default of a type parameter
TyVar_NoDefault(param) ==
    CASE param.kind = "Lifetime" -> <<Lifetime(param.ident)>>
      [] param.kind = "Type" -> <<Ident(param.ident)>>
      [] param.kind = "Const" -> ConstParamTokens(param)

\* the closure of the map that builds ty_vars
TyVar(param) ==
    CASE param.kind = "Lifetime" -> <<Lifetime(param.ident)>>
      [] param.kind = "Type" ->
            IF param.default # <<>>
            THEN <<Ident(param.ident), Punct("=")>> \o param.default[1]
            ELSE <<Ident(param.ident)>>
      [] param.kind = "Const" -> ConstParamTokens(param)

TyVars(generics) == [i \in 1..Len(generics.params) |-> TyVar(generics.params[i])]

\* ImplDebug without the is_empty branch
ImplDebug_AlwaysGeneric(ident, tvs, bs) ==
    <<Word("impl"), Punct("<")>> \o Separated(tvs, Punct(",")) \o <<Punct(">")>>
    \o DebugPath \o <<Word("for"), Ident(ident), Punct("<")>>
    \o Separated(tvs, Punct(",")) \o <<Punct(">")>>
    \o <<Word("where")>> \o Separated(bs, Punct(","))

ImplDebug(ident, tvs, bs) ==
    IF tvs = <<>>
    THEN <<Word("impl")>> \o DebugPath \o <<Word("for"), Ident(ident)>>
    ELSE <<Word("impl"), Punct("<")>> \o Separated(tvs, Punct(",")) \o <<Punct(">")>>
         \o DebugPath \o <<Word("for"), Ident(ident), Punct("<")>>
         \o Separated(tvs, Punct(",")) \o <<Punct(">")>>
         \o <<Word("where")>> \o Separated(bs, Punct(","))

\* fn fmt(&self, f: &mut std::fmt::Formatter<'_>) -> std::fmt::Result { .. }
FmtFn(body) ==
    <<Word("fn"), Word("fmt"),
      Group("(", <<Punct("&"), Word("self"), Punct(","), Word("f"), Punct(":"),
                   Punct("&"), Word("mut"), Word("std"), Punct("::"), Word("fmt"),
                   Punct("::"), Word("Formatter"), Punct("<"), Lifetime(<<"_">>),
                   Punct(">")>>),
      Punct("->"), Word("std"), Punct("::"), Word("fmt"), Punct("::"),
      Word("Result"), Group("{", body)>>

Assemble(header, body) == header \o <<Group("{", FmtFn(body))>>

\* what parse_macro_input! returns from the macro when parsing fails
CompileError ==
    <<Word("compile_error"), Punct("!"), Group("(", <<Lit(<<"e">>)>>)>>

\* the whole of derive_shallow_debug on a parsed declaration
DeriveOutput(in) ==
    Assemble(ImplDebug(in.ident, TyVars(in.generics), Bounds(in.generics)),
             FmtBody(in))

derive_shallow_debug ==
    /\ pc = "parsed"
    /\ parsed
    /\ fmt_body' = FmtBody(input)
    /\ bounds' = Bounds(input.generics)
    /\ ty_vars' = TyVars(input.generics)
    /\ impl_debug' = ImplDebug(input.ident, ty_vars', bounds')
    /\ output' = Assemble(impl_debug', fmt_body')
    /\ pc' = "emitted"
    /\ UNCHANGED <<parsed, input, self, f, result>>

derive_parse_error ==
    /\ pc = "parsed"
    /\ ~parsed
    /\ output' = CompileError
    /\ pc' = "rejected"
    /\ UNCHANGED <<parsed, input, fmt_body, bounds, ty_vars, impl_debug, self,
                   f, result>>

(***************************************************************************)
(* The emitted fmt at run time: the body of the fn in `output`, run on a   *)
(* value whose active variant is `value` with the formatter `fm`.          *)
(***************************************************************************)
RECURSIVE SplitAt(_, _, _)
\* the pieces of `tokens` between the top-level tokens equal to `sep`
SplitAt(tokens, sep, cur) ==
    IF tokens = <<>> THEN (IF cur = <<>> THEN <<>> ELSE <<cur>>)
    ELSE IF Head(tokens) = sep THEN <<cur>> \o SplitAt(Tail(tokens), sep, <<>>)
    ELSE SplitAt(Tail(tokens), sep, Append(cur, Head(tokens)))

RECURSIVE IndexOf(_, _, _)
\* index of the first token of `tokens` equal to `tok` at or after i, else 0
IndexOf(tokens, tok, i) ==
    IF i > Len(tokens) THEN 0
    ELSE IF tokens[i] = tok THEN i
    ELSE IndexOf(tokens, tok, i + 1)

ArmPattern(arm) == SubSeq(arm, 1, IndexOf(arm, Punct("=>"), 1) - 1)
ArmExpr(arm) == SubSeq(arm, IndexOf(arm, Punct("=>"), 1) + 1, Len(arm))

\* does the pattern match a value of type `ident` whose active variant is
\* `variant`: `_` matches all, Path{..} any variant of that name, Path(..)
\* a tuple variant, Path a unit variant
PatternMatches(pat, ident, variant) ==
    \/ pat = <<Word("_")>>
    \/ /\ Len(pat) >= 3
       /\ pat[1] = Ident(ident)
       /\ pat[2] = Punct("::")
       /\ pat[3] = Ident(variant.ident)
       /\ \/ Len(pat) = 3 /\ variant.fields.kind = "Unit"
          \/ Len(pat) = 4 /\ pat[4].t = "Group" /\ pat[4].s = "{"
          \/ Len(pat) = 4 /\ pat[4].t = "Group" /\ pat[4].s = "("
                /\ variant.fields.kind = "Unnamed"

\* Formatter::write_str on a writer that fails or not as a whole
WriteStr(fm, text) ==
    [f |-> [buf |-> IF fm.fail THEN fm.buf ELSE fm.buf \o text,
            writes |-> fm.writes + 1,
            fail |-> fm.fail],
     result |-> IF fm.fail THEN "Err" ELSE "Ok"]

\* an expression in tail position: write!(f, "lit") or Ok(())
EvalExpr(expr, fm) ==
    IF /\ Len(expr) = 3
       /\ expr[1] = Word("write")
       /\ expr[2] = Punct("!")
       /\ expr[3].t = "Group"
       /\ Len(expr[3].inner) = 3
       /\ expr[3].inner[3].t = "Lit"
    THEN LET args == Format(expr[3].inner[3].chars, NoArgs)
         IN  IF args.ok THEN WriteStr(fm, args.text)
             ELSE [f |-> fm, result |-> "CompileError"]
    ELSE IF expr = <<Word("Ok"), Group("(", <<Group("(", <<>>)>>)>>
    THEN [f |-> fm, result |-> "Ok"]
    ELSE [f |-> fm, result |-> "CompileError"]

FnBody(out) ==
    LET impl_block == out[Len(out)].inner
    IN  impl_block[Len(impl_block)].inner

MatchArms(body) == SplitAt(body[3].inner, Punct(","), <<>>)

RunFmt(out, ident, variant, fm) ==
    LET body == FnBody(out)
    IN  IF Len(body) = 3 /\ body[1] = Word("match")
        THEN LET arms == MatchArms(body)
                 hits == {i \in 1..Len(arms) :
                            PatternMatches(ArmPattern(arms[i]), ident, variant)}
             IN  IF hits = {} THEN [f |-> fm, result |-> "CompileError"]
                 ELSE EvalExpr(ArmExpr(arms[CHOOSE i \in hits :
                                                \A j \in hits : i <= j]), fm)
        ELSE EvalExpr(body, fm)

\* the values of the declared type: an enum's value has one of its variants
\* active (an enum with no variant has no value), the others are not looked at
Values(data) == IF data.kind = "Enum" THEN 1..Len(data.variants) ELSE {0}
ActiveVariant(data, v) ==
    IF data.kind = "Enum" THEN data.variants[v]
    ELSE [ident |-> <<>>, fields |-> data.fields]

generated_fmt ==
    /\ pc = "emitted"
    /\ \E v \in Values(input.data), fail \in BOOLEAN :
          LET run == RunFmt(output, input.ident, ActiveVariant(input.data, v),
                            [f EXCEPT !.fail = fail])
          IN  /\ self' = v
              /\ f' = run.f
              /\ result' = run.result
    /\ pc' = "printed"
    /\ UNCHANGED <<parsed, input, fmt_body, bounds, ty_vars, impl_debug, output>>

(***************************************************************************)
(* Specifications.  Spec runs the macro on every shape with few generic    *)
(* signatures, SpecGenerics on every generic signature with few shapes.    *)
(***************************************************************************)
InitRest ==
    /\ pc = "parsed"
    /\ fmt_body = <<>>
    /\ bounds = <<>>
    /\ ty_vars = <<>>
    /\ impl_debug = <<>>
    /\ output = <<>>
    /\ self = 0
    /\ f = [buf |-> <<>>, writes |-> 0, fail |-> FALSE]
    /\ result = "none"

InitOf(Inputs) ==
    /\ \/ parsed = TRUE /\ input \in Inputs
       \/ parsed = FALSE /\ input = NoInput
    /\ InitRest

Init == InitOf(ShapeInputs)
InitGenerics == InitOf(GenericsInputs)

Next ==
    \/ derive_shallow_debug
    \/ derive_parse_error
    \/ generated_fmt

Spec == Init /\ [][Next]_vars
SpecGenerics == InitGenerics /\ [][Next]_vars

(***************************************************************************)
(* Vocabulary of the properties.                                           *)
(***************************************************************************)
Emitted == pc \in {"emitted", "printed"}
Printed == pc = "printed"
IsEnum == input.data.kind = "Enum"
Params == input.generics.params
Clause == input.generics.where_clause

\* the impl header of the emitted text: all of it but the { fn fmt .. } block
Header == SubSeq(output, 1, Len(output) - 1)

\* the constraints of the emitted where clause, as one comma separated stream
WhereTokens ==
    LET w == IndexOf(Header, Word("where"), 1)
    IN  IF w = 0 THEN <<>> ELSE SubSeq(Header, w + 1, Len(Header))

\* the shallow text of the specification's table
KindSuffix(kind) ==
    CASE kind = "Named" -> <<"{", ".", ".", "}">>
      [] kind = "Unnamed" -> <<"(", ".", ".", ")">>
      [] kind = "Unit" -> <<>>

\* `P: <the bounds P declares inline>`
InlineConstraint(p) ==
    <<ParamToken(p), Punct(":")>> \o Separated(p.bounds, Punct("+"))
HasInlineBounds(p) == p.kind # "Const" /\ p.bounds # <<>>
BoundedParams == SelectSeq(Params, HasInlineBounds)
ParamConstraints == [i \in 1..Len(BoundedParams) |-> InlineConstraint(BoundedParams[i])]
Predicates == IF Clause.present THEN Clause.predicates ELSE <<>>

(***************************************************************************)
(* C1: for an enum E whose active variant is V, the generated fmt prints   *)
(* exactly E::V{..} (named fields), E::V(..) (positional fields) or E::V   *)
(* (unit), the braces un-escaped by both format expansions, nothing else.  *)
(***************************************************************************)
C1_EnumText ==
    (Printed /\ IsEnum) =>
        LET v == input.data.variants[self]
        IN  /\ result # "CompileError"
            /\ ~f.fail =>
                 f.buf = input.ident \o <<":", ":">> \o v.ident
                            \o KindSuffix(v.fields.kind)

C1_Witness ==
    /\ Printed /\ IsEnum /\ ~f.fail
    /\ input.data.variants[self].fields.kind = "Named"
    /\ f.buf = <<"M", "y", ":", ":", "V", "3", "{", ".", ".", "}">>

(***************************************************************************)
(* C2: a struct N prints exactly N{..}, N(..) or N by its field kind, and  *)
(* a union N prints exactly N, whatever the fields are.                    *)
(***************************************************************************)
C2_StructUnionText ==
    (Printed /\ ~IsEnum) =>
        /\ result # "CompileError"
        /\ ~f.fail =>
             f.buf = input.ident \o
                (IF input.data.kind = "Union" THEN <<>>
                 ELSE KindSuffix(input.data.fields.kind))

C2_Witness ==
    /\ Printed /\ input.data.kind = "Struct" /\ ~f.fail
    /\ input.data.fields.kind = "Unnamed"
    /\ Len(input.data.fields.list) = MaxFields
    /\ f.buf = <<"N", "(", ".", ".", ")">>

(***************************************************************************)
(* C3: every constraint of the emitted where clause is `P: bounds` for a   *)
(* lifetime or type parameter P with exactly its inline bounds, or a       *)
(* predicate of the input's where clause; no Debug bound is put on a type  *)
(* parameter that the input did not put there.                             *)
(***************************************************************************)
MentionsDebug(stream) == Word("Debug") \in Range(stream)
\* the items of `bounds` that reach the emitted text: all of them when the
\* header has a where clause, none when it has not
EmittedConstraints == IF Word("where") \in Range(Header) THEN bounds ELSE <<>>
C3_NothingSynthesized ==
    Emitted =>
        /\ WhereTokens = Separated(EmittedConstraints, Punct(","))
        /\ \A c \in Range(EmittedConstraints) :
              \/ \E p \in Range(Params) :
                    p.kind # "Const" /\ c = InlineConstraint(p)
              \/ c \in Range(Predicates)
        /\ \A p \in Range(Params) :
              (/\ p.kind = "Type"
               /\ \E c \in Range(EmittedConstraints) :
                     c[1] = Ident(p.ident) /\ MentionsDebug(c))
              => \/ \E b \in Range(p.bounds) : MentionsDebug(b)
                 \/ \E q \in Range(Predicates) :
                       q[1] = Ident(p.ident) /\ MentionsDebug(q)

C3_Witness ==
    /\ Emitted
    /\ \E p \in Range(Params) :
          p.kind = "Type" /\ p.bounds = <<CloneBound>> /\ p.default = <<>>
    /\ WhereTokens # <<>>
    /\ ~MentionsDebug(WhereTokens)

(***************************************************************************)
(* C4: the match of an enum has one arm per variant, in declaration order, *)
(* no wildcard arm, and the pattern of an arm with fields is the path      *)
(* followed by the rest pattern only.                                      *)
(***************************************************************************)
C4_Arms ==
    (Emitted /\ IsEnum) =>
        LET body == FnBody(output)
            variants == input.data.variants
            arms == MatchArms(body)
        IN  /\ Len(body) = 3
            /\ body[1] = Word("match") /\ body[2] = Word("self")
            /\ Len(arms) = Len(variants)
            /\ \A i \in 1..Len(arms) :
                 LET pat == ArmPattern(arms[i])
                     kind == variants[i].fields.kind
                     path == <<Ident(input.ident), Punct("::"),
                               Ident(variants[i].ident)>>
                 IN  /\ Word("_") \notin Range(pat)
                     /\ kind = "Unit" => pat = path
                     /\ kind = "Named" =>
                           pat = path \o <<Group("{", <<Punct("..")>>)>>
                     /\ kind = "Unnamed" =>
                           pat = path \o <<Group("(", <<Punct("..")>>)>>

C4_Witness ==
    /\ Emitted /\ IsEnum
    /\ Len(input.data.variants) = MaxVariants
    /\ input.data.variants[1].ident = <<"V", "3">>
    /\ input.data.variants[1].fields.kind = "Named"
    /\ input.data.variants[1].fields.list # <<>>
    /\ input.data.variants[MaxVariants].ident = <<"A">>
    /\ input.data.variants[MaxVariants].fields.kind = "Unnamed"
    /\ Len(MatchArms(FnBody(output))) = MaxVariants

(***************************************************************************)
(* C5: whenever the declaration has a where clause, the emitted where      *)
(* clause is the constraints of the parameters followed by every predicate *)
(* of that clause, unchanged, in order, duplicates kept, whatever the      *)
(* number of generic parameters.                                           *)
(***************************************************************************)
C5_WhereCarried ==
    (Emitted /\ Clause.present) =>
        WhereTokens = Separated(ParamConstraints \o Clause.predicates, Punct(","))

(***************************************************************************)
(* C6: the impl's parameter list and the target's argument list have one   *)
(* entry per parameter of the input, in order: the bare lifetime, the type *)
(* parameter's identifier followed by `= default` exactly when it has a    *)
(* default, the const parameter's declaration as it is.                    *)
(***************************************************************************)
C6_Entry(p) ==
    CASE p.kind = "Lifetime" -> <<Lifetime(p.ident)>>
      [] p.kind = "Type" ->
            <<Ident(p.ident)>>
            \o (IF p.default = <<>> THEN <<>> ELSE <<Punct("=")>> \o p.default[1])
      [] p.kind = "Const" ->
            <<Word("const"), Ident(p.ident), Punct(":")>> \o p.ty
            \o (IF p.default = <<>> THEN <<>> ELSE <<Punct("=")>> \o p.default[1])

C6_SameParameters ==
    (Emitted /\ Params # <<>>) =>
        LET list == <<Punct("<")>>
                    \o Separated([i \in 1..Len(Params) |-> C6_Entry(Params[i])],
                                 Punct(","))
                    \o <<Punct(">")>>
            head == <<Word("impl")>> \o list \o DebugPath
                    \o <<Word("for"), Ident(input.ident)>> \o list
        IN  /\ Len(ty_vars) = Len(Params)
            /\ Len(Header) >= Len(head)
            /\ SubSeq(Header, 1, Len(head)) = head
            /\ Header[Len(head) + 1] = Word("where")

C6_Witness ==
    /\ Emitted
    /\ Len(Params) = MaxParams
    /\ Params[1].kind = "Const"
    /\ \E i \in 1..Len(Params) :
          Params[i].kind = "Type" /\ Params[i].default # <<>>
                /\ Params[i].bounds # <<>>
    /\ Header[2] = Punct("<")

(***************************************************************************)
(* C7: with no generic parameter the header is the bare                    *)
(* `impl std::fmt::Debug for Name`, with no <..> list and no `where`; a    *)
(* <..> list is emitted only when there is a generic parameter.            *)
(***************************************************************************)
C7_BareHeader ==
    Emitted =>
        /\ Params = <<>> =>
              /\ Header = <<Word("impl")>> \o DebugPath
                            \o <<Word("for"), Ident(input.ident)>>
              /\ Punct("<") \notin Range(Header)
              /\ Word("where") \notin Range(Header)
        /\ Punct("<") \in Range(Header) => Params # <<>>

C7_Witness ==
    /\ Emitted
    /\ Params = <<>>
    /\ Clause.present /\ Clause.predicates # <<>>
    /\ Len(Header) = 8

(***************************************************************************)
(* C8: the emitted text is the same for two declarations that differ only  *)
(* in the names, the types and the number of their fields: it is the text  *)
(* emitted for the declaration with every field list emptied.              *)
(***************************************************************************)
EraseFieldList(fields) == [fields EXCEPT !.list = <<>>]
EraseVariant(variant) == [variant EXCEPT !.fields = EraseFieldList(@)]
EraseFields(in) ==
    [in EXCEPT !.data.fields = EraseFieldList(@),
               !.data.variants = Map(@, EraseVariant)]

C8_FieldsNotRead ==
    Emitted => output = DeriveOutput(EraseFields(input))

C8_Witness ==
    /\ Emitted /\ IsEnum
    /\ Len(input.data.variants) = MaxVariants
    /\ \A i \in 1..MaxVariants :
          Len(input.data.variants[i].fields.list) = MaxFields
    /\ input.data.variants[1].fields.kind = "Named"
    /\ EraseFields(input) # input
    /\ output = DeriveOutput(EraseFields(input))

(***************************************************************************)
(* C9: with at least one generic parameter, the constraints derived from   *)
(* the parameters are one `P: bounds` for each lifetime or type parameter  *)
(* P with inline bounds, in declaration order, and nothing for the others; *)
(* the bounds are in the where clause and not in the parameter list.       *)
(***************************************************************************)
C9_BoundsRelocated ==
    (Emitted /\ Params # <<>>) =>
        LET derived == SubSeq(bounds, 1, Len(bounds) - Len(Predicates))
            prefix == Separated(ParamConstraints, Punct(","))
        IN  /\ derived = ParamConstraints
            /\ Len(WhereTokens) >= Len(prefix)
            /\ SubSeq(WhereTokens, 1, Len(prefix)) = prefix
            /\ \A i \in 1..Len(Params) :
                  Params[i].kind # "Const" => Punct(":") \notin Range(ty_vars[i])

C9_Witness ==
    /\ Emitted
    /\ Len(Params) = MaxParams
    /\ Params[1].kind = "Lifetime" /\ Params[1].bounds # <<>>
    /\ Params[MaxParams].kind = "Type" /\ Len(Params[MaxParams].bounds) = 2
    /\ Len(ParamConstraints) = 2
    /\ Len(bounds) >= 2

(***************************************************************************)
(* C10: one call of the generated fmt does exactly one write and returns   *)
(* what that write returned: Ok when it succeeded, its error otherwise.    *)
(***************************************************************************)
C10_OneWrite ==
    Printed =>
        /\ f.writes = 1
        /\ result = (IF f.fail THEN "Err" ELSE "Ok")

C10_Witness ==
    /\ Printed /\ IsEnum
    /\ input.data.variants[self].fields.kind = "Unit"
    /\ f.fail /\ f.writes = 1 /\ result = "Err"

====
